---- MODULE Spec2Model ----
(***************************************************************************)
(* Model of the instruction decode-and-execute core in                     *)
(* src/cpu/src/instructions.rs: fetch, the addressing-mode resolvers       *)
(* (immediate, absolute_address, absolute), the a16 mode-dispatch gate,    *)
(* the handlers lda, stz and set_flag, and the run_instruction dispatcher. *)
(*                                                                         *)
(* run_instruction is modelled as a sequence of steps, one per memory      *)
(* access or call; the variable `at` is the position inside it.            *)
(***************************************************************************)
EXTENDS Integers, Sequences, FiniteSets, TLC

VARIABLES
    registers,     \* cpu.registers: [pc, pb, db, a, flags]
    mem,           \* the Mapper's memory: cells that differ from Fill
    at,            \* position inside run_instruction
    code,          \* the opcode byte matched by run_instruction
    resolver,      \* the resolver handed to a16 by the match arm
    sixteen_bits,  \* the local of a16, passed on to the resolver
    opa,           \* local `a` of the resolver
    address,       \* local `address` of absolute_address
    value,         \* the value handed to the handler
    pre,           \* registers and memory when the instruction started
    trace,         \* what the current instruction did so far, in order
    icount         \* number of opcodes fetched

vars == <<registers, mem, at, code, resolver, sixteen_bits, opa, address,
          value, pre, trace, icount>>

----------------------------------------------------------------------------
(* Bounds of the model *)

MaxInstr == 2      \* opcodes fetched in one behaviour
ProgLen == 3       \* bytes of program placed at the initial pc

----------------------------------------------------------------------------
(* Widths and opcodes *)

U8 == 2^8
U16 == 2^16

OP_LDA_IMMEDIATE == 169     \* 0xA9
OP_LDA_ABSOLUTE == 173      \* 0xAD
OP_SEI == 120               \* 0x78
OP_STZ_ABSOLUTE == 156      \* 0x9C

BoundOpcodes ==
    {OP_LDA_IMMEDIATE, OP_LDA_ABSOLUTE, OP_SEI, OP_STZ_ABSOLUTE}

OperandOpcodes == {OP_LDA_IMMEDIATE, OP_LDA_ABSOLUTE, OP_STZ_ABSOLUTE}

(* Flags is a bit set; a value of it is modelled as the set of its bits.   *)
FLAG_NO_IRQ == "FLAG_NO_IRQ"
FLAG_A16 == "FLAG_A16"
FLAG_OTHER == "FLAG_OTHER"
AllFlags == {FLAG_NO_IRQ, FLAG_A16, FLAG_OTHER}

----------------------------------------------------------------------------
(* Input sets *)

ProgBytes == {0, 52, OP_SEI, OP_STZ_ABSOLUTE, OP_LDA_IMMEDIATE,
              OP_LDA_ABSOLUTE, 255}
InitPC == {32768, 65534, 65535}
InitPB == {0, 128}
InitDB == {0, 126}
InitA == {0, 48879}

----------------------------------------------------------------------------
(* Bit operations *)

RECURSIVE BitOr(_, _)
BitOr(x, y) ==
    IF x = 0 THEN y
    ELSE IF y = 0 THEN x
    ELSE (IF x % 2 = 1 \/ y % 2 = 1 THEN 1 ELSE 0)
         + 2 * BitOr(x \div 2, y \div 2)

(* (b as u16) << 8 *)
Shl8(b) == (b * 256) % U16

(* Mutation: the two operand bytes combined high byte first *)
LittleEndian_Swapped(a, b) == BitOr(b, Shl8(a))

(* a as u16 | ((b as u16) << 8) *)
LittleEndian(a, b) == BitOr(a, Shl8(b))

----------------------------------------------------------------------------
(* The memory interface *)

(* Content of a cell nobody placed a byte in. *)
Fill(bank, offset) == (bank + offset) % U8

MapperRead(m, bank, offset) ==
    IF <<bank, offset>> \in DOMAIN m THEN m[<<bank, offset>>]
    ELSE Fill(bank, offset)

MapperWrite(m, bank, offset, byte) ==
    [x \in DOMAIN m \cup {<<bank, offset>>} |->
        IF x = <<bank, offset>> THEN byte ELSE m[x]]

(* Where the second byte of a 16-bit access lives.  Past offset 0xFFFF the *)
(* choice between wrapping inside the bank and crossing into the next bank *)
(* is left open, so both are possible.                                     *)
SecondByte(bank, offset) ==
    IF offset + 1 < U16 THEN {<<bank, offset + 1>>}
    ELSE {<<bank, 0>>, <<(bank + 1) % U8, 0>>}

(* cpu.read::<u8> *)
ReadU8(m, bank, offset) == MapperRead(m, bank, offset)

(* cpu.read::<u16>, second byte at `hi` *)
ReadU16(m, bank, offset, hi) ==
    LittleEndian(MapperRead(m, bank, offset), MapperRead(m, hi[1], hi[2]))

(* cpu.write::<u8> *)
WriteU8(m, bank, offset, v) == MapperWrite(m, bank, offset, v % U8)

(* cpu.write::<u16>, second byte at `hi` *)
WriteU16(m, bank, offset, v, hi) ==
    MapperWrite(MapperWrite(m, bank, offset, v % U8), hi[1], hi[2], v \div U8)

----------------------------------------------------------------------------
(* The width abstraction *)

(* <u8 as BitWidth>::set *)
SetU8(reg, v) == (reg \div U8) * U8 + v

(* <u16 as BitWidth>::set *)
SetU16(reg, v) == v

(* T::default() *)
DefaultValue == 0

----------------------------------------------------------------------------
(* Pure parts of the code *)

(* Mutation: the instruction stream read through the data bank *)
fetch_byte_DataBank(regs, m) == MapperRead(m, regs.db, regs.pc)

(* fetch: the byte read *)
fetch_byte(regs, m) == MapperRead(m, regs.pb, regs.pc)

(* Mutation: the carry out of pc goes into the program bank *)
fetch_regs_Carry(regs) ==
    [regs EXCEPT !.pc = (regs.pc + 1) % U16,
                 !.pb = (regs.pb + (regs.pc + 1) \div U16) % U8]

(* fetch: the registers afterwards *)
fetch_regs(regs) == [regs EXCEPT !.pc = (regs.pc + 1) % U16]

(* Mutation: the flags xor-ed in instead of or-ed in *)
set_flag_Toggle(regs, flags) ==
    [regs EXCEPT !.flags = (@ \ flags) \cup (flags \ @)]

(* Mutation: the flags assigned instead of or-ed in *)
set_flag_Assign(regs, flags) == [regs EXCEPT !.flags = flags]

set_flag(regs, flags) == [regs EXCEPT !.flags = @ \cup flags]

(* flags.contains(FLAG_A16) *)
a16_sixteen_bits(regs) == {FLAG_A16} \subseteq regs.flags

(* Mutation: the 8-bit load overwrites the whole accumulator *)
lda8_Whole(regs, v) == [regs EXCEPT !.a = v]

lda8(regs, v) == [regs EXCEPT !.a = SetU8(@, v)]
lda16(regs, v) == [regs EXCEPT !.a = SetU16(@, v)]

----------------------------------------------------------------------------
(* Events of the trace *)

EvRead(bank, offset, byte) == <<"read", bank, offset, byte>>
EvWrite(bank, offset, byte) == <<"write", bank, offset, byte>>
EvFlag(b) == <<"flag", b>>
EvEnter(fn) == <<"enter", fn>>
EvCont(fn, which) == <<"cont", fn, which>>
EvHandler(fn, width) == <<"handler", fn, width>>

Events(kind) == SelectSeq(trace, LAMBDA e : e[1] = kind)

----------------------------------------------------------------------------
(* Initial state *)

ProgramAt(pb, pc, prog) ==
    [x \in {<<pb, (pc + i - 1) % U16>> : i \in 1..ProgLen} |->
        LET i == CHOOSE j \in 1..ProgLen : x = <<pb, (pc + j - 1) % U16>>
        IN prog[i]]

Init ==
    /\ \E pc \in InitPC, pb \in InitPB, db \in InitDB, a \in InitA,
          flags \in SUBSET AllFlags, prog \in [1..ProgLen -> ProgBytes] :
          /\ registers = [pc |-> pc, pb |-> pb, db |-> db, a |-> a,
                          flags |-> flags]
          /\ mem = ProgramAt(pb, pc, prog)
    /\ at = "ready"
    /\ code = 0
    /\ resolver = "none"
    /\ sixteen_bits = FALSE
    /\ opa = 0
    /\ address = 0
    /\ value = 0
    /\ pre = [registers |-> registers, mem |-> mem]
    /\ trace = <<>>
    /\ icount = 0

----------------------------------------------------------------------------
(* run_instruction *)

Locals == <<code, resolver, sixteen_bits, opa, address, value>>

(* match fetch(cpu) { *)
FetchOpcode ==
    /\ at = "ready"
    /\ icount < MaxInstr
    /\ code' = fetch_byte(registers, mem)
    /\ registers' = fetch_regs(registers)
    /\ pre' = [registers |-> registers, mem |-> mem]
    /\ trace' = <<EvRead(registers.pb, registers.pc, code')>>
    /\ icount' = icount + 1
    /\ at' = "match"
    /\ UNCHANGED <<mem, resolver, sixteen_bits, opa, address, value>>

(* absolute does nothing but call absolute_address with its two closures *)
Entered(f) ==
    IF f = "absolute" THEN <<EvEnter("absolute"), EvEnter("absolute_address")>>
    ELSE <<EvEnter(f)>>

(* a16(cpu, f, g, h): read the flag, call the resolver f *)
a16(f) ==
    /\ sixteen_bits' = a16_sixteen_bits(registers)
    /\ resolver' = f
    /\ trace' = trace \o <<EvFlag(sixteen_bits')>> \o Entered(f)
    /\ at' = IF f = "immediate" THEN "immediate" ELSE "absolute_address"
    /\ UNCHANGED <<registers, mem, code, opa, address, value, pre, icount>>

(* 0xA9 => a16(cpu, immediate, lda, lda) *)
MatchLdaImmediate ==
    /\ at = "match"
    /\ code = OP_LDA_IMMEDIATE
    /\ a16("immediate")

(* 0xAD => a16(cpu, absolute, lda, lda) *)
MatchLdaAbsolute ==
    /\ at = "match"
    /\ code = OP_LDA_ABSOLUTE
    /\ a16("absolute")

(* 0x9C => a16(cpu, absolute_address, stz::<M, u8>, stz::<M, u16>) *)
MatchStzAbsolute ==
    /\ at = "match"
    /\ code = OP_STZ_ABSOLUTE
    /\ a16("absolute_address")

(* 0x78 => set_flag(cpu, FLAG_NO_IRQ) *)
MatchSei ==
    /\ at = "match"
    /\ code = OP_SEI
    /\ registers' = set_flag(registers, {FLAG_NO_IRQ})
    /\ trace' = Append(trace, EvHandler("set_flag", 0))
    /\ at' = "ready"
    /\ UNCHANGED <<mem, pre, icount>>
    /\ UNCHANGED Locals

(* Mutation: an unknown opcode is skipped *)
MatchUnimplemented_Skip ==
    /\ at = "match"
    /\ code \notin BoundOpcodes
    /\ at' = "ready"
    /\ UNCHANGED <<registers, mem, pre, trace, icount>>
    /\ UNCHANGED Locals

(* code => { println!(..); unimplemented!(); } *)
MatchUnimplemented ==
    /\ at = "match"
    /\ code \notin BoundOpcodes
    /\ at' = "panicked"
    /\ UNCHANGED <<registers, mem, pre, trace, icount>>
    /\ UNCHANGED Locals

----------------------------------------------------------------------------
(* immediate *)

(* Mutation: immediate never fetches the second byte *)
ImmediateFetchA_OneByte ==
    /\ at = "immediate"
    /\ opa' = fetch_byte(registers, mem)
    /\ registers' = fetch_regs(registers)
    /\ at' = "lda8"
    /\ trace' = trace \o <<EvRead(registers.pb, registers.pc, opa'),
                           EvCont("immediate", "f")>>
    /\ value' = opa'
    /\ UNCHANGED <<mem, code, resolver, sixteen_bits, address, pre, icount>>

(* let a = fetch(cpu); if sixteen_bits {..} else { f(cpu, a); } *)
ImmediateFetchA ==
    /\ at = "immediate"
    /\ opa' = fetch_byte(registers, mem)
    /\ registers' = fetch_regs(registers)
    /\ IF sixteen_bits
       THEN /\ at' = "immediate_b"
            /\ trace' = Append(trace, EvRead(registers.pb, registers.pc, opa'))
            /\ value' = value
       ELSE /\ at' = "lda8"
            /\ trace' = trace \o <<EvRead(registers.pb, registers.pc, opa'),
                                   EvCont("immediate", "f")>>
            /\ value' = opa'
    /\ UNCHANGED <<mem, code, resolver, sixteen_bits, address, pre, icount>>

(* Mutation: immediate inspects the width flag again before calling g *)
ImmediateFetchB_Rereads ==
    /\ at = "immediate_b"
    /\ LET b == fetch_byte(registers, mem)
       IN /\ value' = LittleEndian(opa, b)
          /\ trace' = trace \o <<EvRead(registers.pb, registers.pc, b),
                                 EvFlag(a16_sixteen_bits(registers)),
                                 EvCont("immediate", "g")>>
    /\ registers' = fetch_regs(registers)
    /\ at' = "lda16"
    /\ UNCHANGED <<mem, code, resolver, sixteen_bits, opa, address, pre,
                   icount>>

(* let b = (fetch(cpu) as u16) << 8; g(cpu, a as u16 | b); *)
ImmediateFetchB ==
    /\ at = "immediate_b"
    /\ LET b == fetch_byte(registers, mem)
       IN /\ value' = LittleEndian(opa, b)
          /\ trace' = trace \o <<EvRead(registers.pb, registers.pc, b),
                                 EvCont("immediate", "g")>>
    /\ registers' = fetch_regs(registers)
    /\ at' = "lda16"
    /\ UNCHANGED <<mem, code, resolver, sixteen_bits, opa, address, pre,
                   icount>>

----------------------------------------------------------------------------
(* absolute_address, called by a16 directly or through absolute *)

(* let a = fetch(cpu); *)
AbsoluteAddressFetchA ==
    /\ at = "absolute_address"
    /\ opa' = fetch_byte(registers, mem)
    /\ registers' = fetch_regs(registers)
    /\ trace' = Append(trace, EvRead(registers.pb, registers.pc, opa'))
    /\ at' = "absolute_address_b"
    /\ UNCHANGED <<mem, code, resolver, sixteen_bits, address, value, pre,
                   icount>>

(* Mutation: the store goes through the dereferencing closures of absolute *)
Continuation_Deref(res, which) ==
    IF which = "f" THEN "absolute_closure_2" ELSE "absolute_closure_1"

(* Mutation: the handlers of the match arm taken in the other order *)
Continuation_Swapped(res, which) ==
    IF res = "absolute"
    THEN (IF which = "f" THEN "absolute_closure_1" ELSE "absolute_closure_2")
    ELSE (IF which = "f" THEN "stz16" ELSE "stz8")

(* The continuation absolute_address was given as f or g: the handler of   *)
(* the match arm, or the closure absolute wrapped around its own g or f.   *)
Continuation(res, which) ==
    IF res = "absolute"
    THEN (IF which = "f" THEN "absolute_closure_1" ELSE "absolute_closure_2")
    ELSE (IF which = "f" THEN "stz8" ELSE "stz16")

(* Mutation: the resolver starts over instead of calling its continuation *)
AbsoluteAddressFetchB_Again ==
    /\ at = "absolute_address_b"
    /\ LET b == fetch_byte(registers, mem)
       IN /\ address' = LittleEndian(opa, b)
          /\ trace' = Append(trace, EvRead(registers.pb, registers.pc, b))
    /\ at' = "absolute_address"
    /\ registers' = fetch_regs(registers)
    /\ UNCHANGED <<mem, code, resolver, sixteen_bits, opa, value, pre, icount>>

(* Mutation: in 16-bit mode the resolver returns without calling g *)
AbsoluteAddressFetchB_NoCall ==
    /\ at = "absolute_address_b"
    /\ LET b == fetch_byte(registers, mem)
       IN /\ address' = LittleEndian(opa, b)
          /\ trace' = trace \o
                (IF sixteen_bits
                 THEN <<EvRead(registers.pb, registers.pc, b)>>
                 ELSE <<EvRead(registers.pb, registers.pc, b),
                        EvCont("absolute_address", "f")>>)
          /\ at' = IF sixteen_bits THEN "ready"
                   ELSE Continuation(resolver, "f")
    /\ registers' = fetch_regs(registers)
    /\ UNCHANGED <<mem, code, resolver, sixteen_bits, opa, value, pre, icount>>

(* let b = fetch(cpu); let address = ..;                                    *)
(* if sixteen_bits { g(cpu, address); } else { f(cpu, address); }          *)
AbsoluteAddressFetchB ==
    /\ at = "absolute_address_b"
    /\ LET b == fetch_byte(registers, mem)
           which == IF sixteen_bits THEN "g" ELSE "f"
       IN /\ address' = LittleEndian(opa, b)
          /\ trace' = trace \o <<EvRead(registers.pb, registers.pc, b),
                                 EvCont("absolute_address", which)>>
          /\ at' = Continuation(resolver, which)
    /\ registers' = fetch_regs(registers)
    /\ UNCHANGED <<mem, code, resolver, sixteen_bits, opa, value, pre, icount>>

----------------------------------------------------------------------------
(* absolute: the two closures it hands to absolute_address *)

(* |cpu, address| { let value = cpu.read(db, address); g(cpu, value); }    *)
(* passed as f; g takes a u16, so the read is a 16-bit one.                *)
AbsoluteClosure1 ==
    /\ at = "absolute_closure_1"
    /\ \E hi \in SecondByte(registers.db, address) :
          /\ value' = ReadU16(mem, registers.db, address, hi)
          /\ trace' = trace \o
                <<EvRead(registers.db, address,
                         MapperRead(mem, registers.db, address)),
                  EvRead(hi[1], hi[2], MapperRead(mem, hi[1], hi[2])),
                  EvCont("absolute", "g")>>
    /\ at' = "lda16"
    /\ UNCHANGED <<registers, mem, code, resolver, sixteen_bits, opa, address,
                   pre, icount>>

(* |cpu, address| { let value = cpu.read(db, address); f(cpu, value); }    *)
(* passed as g; f takes a u8, so the read is an 8-bit one.                 *)
AbsoluteClosure2 ==
    /\ at = "absolute_closure_2"
    /\ value' = ReadU8(mem, registers.db, address)
    /\ trace' = trace \o <<EvRead(registers.db, address, value'),
                           EvCont("absolute", "f")>>
    /\ at' = "lda8"
    /\ UNCHANGED <<registers, mem, code, resolver, sixteen_bits, opa, address,
                   pre, icount>>

----------------------------------------------------------------------------
(* The handlers *)

(* lda::<M, u8> *)
Lda8 ==
    /\ at = "lda8"
    /\ registers' = lda8(registers, value)
    /\ trace' = Append(trace, EvHandler("lda", 8))
    /\ at' = "ready"
    /\ UNCHANGED <<mem, pre, icount>>
    /\ UNCHANGED Locals

(* lda::<M, u16> *)
Lda16 ==
    /\ at = "lda16"
    /\ registers' = lda16(registers, value)
    /\ trace' = Append(trace, EvHandler("lda", 16))
    /\ at' = "ready"
    /\ UNCHANGED <<mem, pre, icount>>
    /\ UNCHANGED Locals

(* stz::<M, u8> *)
Stz8 ==
    /\ at = "stz8"
    /\ mem' = WriteU8(mem, registers.db, address, DefaultValue)
    /\ trace' = trace \o <<EvHandler("stz", 8),
                           EvWrite(registers.db, address, DefaultValue % U8)>>
    /\ at' = "ready"
    /\ UNCHANGED <<registers, pre, icount>>
    /\ UNCHANGED Locals

(* stz::<M, u16> *)
Stz16 ==
    /\ at = "stz16"
    /\ \E hi \in SecondByte(registers.db, address) :
          /\ mem' = WriteU16(mem, registers.db, address, DefaultValue, hi)
          /\ trace' = trace \o
                <<EvHandler("stz", 16),
                  EvWrite(registers.db, address, DefaultValue % U8),
                  EvWrite(hi[1], hi[2], DefaultValue \div U8)>>
    /\ at' = "ready"
    /\ UNCHANGED <<registers, pre, icount>>
    /\ UNCHANGED Locals

----------------------------------------------------------------------------

Next ==
    \/ FetchOpcode
    \/ MatchLdaImmediate
    \/ MatchLdaAbsolute
    \/ MatchStzAbsolute
    \/ MatchSei
    \/ MatchUnimplemented
    \/ ImmediateFetchA
    \/ ImmediateFetchB
    \/ AbsoluteAddressFetchA
    \/ AbsoluteAddressFetchB
    \/ AbsoluteClosure1
    \/ AbsoluteClosure2
    \/ Lda8
    \/ Lda16
    \/ Stz8
    \/ Stz16

Spec == Init /\ [][Next]_vars

(* Everything run_instruction does after the opcode fetch.  The code is    *)
(* straight-line and synchronous, so a started instruction keeps going.    *)
Execute ==
    \/ MatchLdaImmediate
    \/ MatchLdaAbsolute
    \/ MatchStzAbsolute
    \/ MatchSei
    \/ MatchUnimplemented
    \/ ImmediateFetchA
    \/ ImmediateFetchB
    \/ AbsoluteAddressFetchA
    \/ AbsoluteAddressFetchB
    \/ AbsoluteClosure1
    \/ AbsoluteClosure2
    \/ Lda8
    \/ Lda16
    \/ Stz8
    \/ Stz16

(* The initial states the liveness check starts from: every program,      *)
(* every initial pc and program bank, both widths; one accumulator value   *)
(* and one data bank, which do not decide where control goes.              *)
LiveInit ==
    /\ Init
    /\ registers.a = 48879
    /\ registers.db = 126
    /\ FLAG_OTHER \notin registers.flags

LiveSpec == LiveInit /\ [][Next]_vars /\ WF_vars(Execute)

TypeOK ==
    /\ registers.pc \in 0..(U16 - 1)
    /\ registers.pb \in 0..(U8 - 1)
    /\ registers.db \in 0..(U8 - 1)
    /\ registers.a \in 0..(U16 - 1)
    /\ registers.flags \subseteq AllFlags
    /\ \A x \in DOMAIN mem : mem[x] \in 0..(U8 - 1)
    /\ icount \in 0..MaxInstr

----------------------------------------------------------------------------
(* Vocabulary of the properties *)

(* The last instruction fetched has run to its end. *)
Completed == at = "ready" /\ icount > 0

(* The k-th byte of the current instruction, as memory held it at its start *)
PreByte(k) ==
    MapperRead(pre.mem, pre.registers.pb, (pre.registers.pc + k) % U16)

(* The 16-bit operand of the current instruction, low byte first *)
PreOperand == PreByte(1) + 256 * PreByte(2)

WidthFlagAtStart == FLAG_A16 \in pre.registers.flags

Resolvers == {"immediate", "absolute_address", "absolute"}

EnteredCount(r) ==
    Len(SelectSeq(trace, LAMBDA e : e[1] = "enter" /\ e[2] = r))

ContCount(r) ==
    Len(SelectSeq(trace, LAMBDA e : e[1] = "cont" /\ e[2] = r))

(* The instruction-stream reads of an instruction of n bytes *)
FetchEvents(n) ==
    [k \in 1..n |-> EvRead(pre.registers.pb,
                           (pre.registers.pc + k - 1) % U16,
                           PreByte(k - 1))]

----------------------------------------------------------------------------
(* C1: for the opcodes with an operand (0xA9, 0xAD, 0x9C), the handler     *)
(* that runs is the 16-bit one exactly when FLAG_A16 was set at the start  *)
(* of the instruction, and the 8-bit one exactly when it was clear.        *)
C1_HandlerWidthMatchesFlag ==
    \A i \in 1..Len(trace) :
        (trace[i][1] = "handler" /\ trace[i][2] \in {"lda", "stz"})
            => (trace[i][3] = 16 <=> WidthFlagAtStart)

(* C2: after 0xAD, with the width flag set the accumulator is              *)
(* mem[db, offset] | (mem[db, offset+1] << 8) read with two byte reads;    *)
(* with the flag clear one byte is read from (db, offset) and only the     *)
(* accumulator's low byte is replaced.                                     *)
C2_LdaAbsolute ==
    (Completed /\ code = OP_LDA_ABSOLUTE) =>
        LET db == pre.registers.db
            lo == MapperRead(pre.mem, db, PreOperand)
            dataReads == SubSeq(Events("read"), 4, Len(Events("read")))
        IN IF WidthFlagAtStart
           THEN /\ Len(dataReads) = 2
                /\ \E hi \in SecondByte(db, PreOperand) :
                      registers.a =
                          lo + 256 * MapperRead(pre.mem, hi[1], hi[2])
           ELSE /\ dataReads = <<EvRead(db, PreOperand, lo)>>
                /\ registers.a = (pre.registers.a \div 256) * 256 + lo

(* C3: when the opcode fetched has no handler, every register still has    *)
(* its value from before the instruction when the decode failure is raised *)
C3_DecodeFailureKeepsRegisters ==
    at = "panicked" => registers = pre.registers

(* C4: an opcode outside {0x78, 0x9C, 0xA9, 0xAD} ends in the decode       *)
(* failure and nowhere else: no handler runs, no memory write is issued,   *)
(* and nothing is decoded after the failure.                               *)
C4_UnboundOpcodeIsFatal ==
    /\ [](/\ (icount > 0 /\ code \notin BoundOpcodes) =>
                /\ at \in {"match", "panicked"}
                /\ Events("handler") = <<>>
                /\ Events("write") = <<>>
                /\ mem = pre.mem
          /\ at = "panicked" => code \notin BoundOpcodes)
    /\ [][/\ (at = "match" /\ code \notin BoundOpcodes) => at' = "panicked"
          /\ at = "panicked" => UNCHANGED vars]_vars

C4_Witness ==
    at = "panicked" /\ code = 255 /\ icount = 2

(* C5: every resolver that was called invokes at most one of its two       *)
(* continuations, and exactly one by the time the instruction is over; the *)
(* a16 gate likewise ends with exactly one of its two handlers run.        *)
C5_ExactlyOneContinuation ==
    /\ \A r \in Resolvers : ContCount(r) <= EnteredCount(r)
    /\ \A r \in Resolvers : EnteredCount(r) <= 1
    /\ Len(Events("handler")) <= 1
    /\ (Completed /\ code \in OperandOpcodes) =>
          /\ \A r \in Resolvers : ContCount(r) = EnteredCount(r)
          /\ EnteredCount(resolver) = 1
          /\ Len(Events("flag")) = 1
          /\ Len(Events("handler")) = 1

C5_Witness ==
    /\ Completed
    /\ code = OP_LDA_ABSOLUTE
    /\ ContCount("absolute") = 1
    /\ ContCount("absolute_address") = 1

(* C6: 0xA9 with the width flag clear consumes exactly one operand byte b, *)
(* sets the accumulator's low byte to b and keeps its high byte.           *)
C6_LdaImmediate8 ==
    (Completed /\ code = OP_LDA_IMMEDIATE /\ ~WidthFlagAtStart) =>
        /\ Events("read") = FetchEvents(2)
        /\ registers.pc = (pre.registers.pc + 2) % U16
        /\ registers.a % 256 = PreByte(1)
        /\ registers.a \div 256 = pre.registers.a \div 256

C6_Witness ==
    /\ Completed
    /\ code = OP_LDA_IMMEDIATE
    /\ ~WidthFlagAtStart
    /\ pre.registers.a = 48879
    /\ registers.a = 48640 + 52

(* C7: 0xA9 with the width flag set fetches (low, high) in that order,     *)
(* sets the accumulator to low | (high << 8), and accesses memory for      *)
(* nothing but the three instruction bytes.                                *)
C7_LdaImmediate16 ==
    (Completed /\ code = OP_LDA_IMMEDIATE /\ WidthFlagAtStart) =>
        /\ registers.a = PreByte(1) + 256 * PreByte(2)
        /\ Events("read") = FetchEvents(3)
        /\ Events("write") = <<>>
        /\ mem = pre.mem

C7_Witness ==
    /\ Completed
    /\ code = OP_LDA_IMMEDIATE
    /\ WidthFlagAtStart
    /\ PreByte(1) = 52
    /\ PreByte(2) = 255
    /\ registers.a = 65332

(* C8: 0x78 sets the interrupt-disable flag, leaves every other flag as it *)
(* was, advances pc by exactly 1 (mod 2^16), fetches no operand, and       *)
(* leaves accumulator, data bank, program bank and memory unchanged.       *)
C8_Sei ==
    (Completed /\ code = OP_SEI) =>
        /\ FLAG_NO_IRQ \in registers.flags
        /\ registers.flags \ {FLAG_NO_IRQ}
               = pre.registers.flags \ {FLAG_NO_IRQ}
        /\ registers.pc = (pre.registers.pc + 1) % U16
        /\ Events("read") = FetchEvents(1)
        /\ Events("write") = <<>>
        /\ registers.a = pre.registers.a
        /\ registers.db = pre.registers.db
        /\ registers.pb = pre.registers.pb
        /\ mem = pre.mem

C8_Witness ==
    /\ Completed
    /\ code = OP_SEI
    /\ pre.registers.flags = {FLAG_A16, FLAG_OTHER}
    /\ registers.flags = AllFlags
    /\ pre.registers.pc = 65535

(* C9: 0x9C with the width flag clear issues exactly one write, to         *)
(* (db, low | (high << 8)), of the value 0x00.                             *)
C9_StzAbsolute8 ==
    (Completed /\ code = OP_STZ_ABSOLUTE /\ ~WidthFlagAtStart) =>
        Events("write") = <<EvWrite(pre.registers.db, PreOperand, 0)>>

C9_Witness ==
    /\ Completed
    /\ code = OP_STZ_ABSOLUTE
    /\ ~WidthFlagAtStart
    /\ pre.registers.db = 126
    /\ PreOperand = 52 + 256 * 255
    /\ MapperRead(pre.mem, 126, PreOperand) # 0
    /\ MapperRead(mem, 126, PreOperand) = 0

(* C10: every fetch sets pc to (pc + 1) mod 2^16 and leaves the program    *)
(* bank alone; from pc = 0xFFFF it leaves pc = 0x0000.                     *)
FetchPositions ==
    {"ready", "immediate", "immediate_b", "absolute_address",
     "absolute_address_b"}

C10_FetchWrapsPc ==
    [][(at \in FetchPositions) =>
          (/\ registers'.pc = (registers.pc + 1) % U16
           /\ (registers.pc = 65535 => registers'.pc = 0)
           /\ registers'.pb = registers.pb
           /\ trace' # trace)]_vars

C10_Witness ==
    /\ at = "absolute_address_b"
    /\ registers.pc = 0
    /\ registers.pb = 128
    /\ trace[Len(trace)] = EvRead(128, 65535, opa)

(* C11: the opcode is read from (pb, pc), the low operand byte from        *)
(* (pb, pc+1 mod 2^16) and the high operand byte from (pb, pc+2 mod 2^16), *)
(* in that order; an instruction that straddles offset 0xFFFF continues at *)
(* offset 0x0000 of the same program bank.                                 *)
FetchCount ==
    IF Len(Events("read")) < 3 THEN Len(Events("read")) ELSE 3

C11_FetchOrder ==
    /\ icount > 0 => Len(Events("read")) >= 1
    /\ \A k \in 1..FetchCount :
          Events("read")[k] =
              EvRead(pre.registers.pb, (pre.registers.pc + k - 1) % U16,
                     PreByte(k - 1))
    /\ (Completed /\ code \in {OP_LDA_ABSOLUTE, OP_STZ_ABSOLUTE}) =>
          address = PreByte(1) + 256 * PreByte(2)

C11_Witness ==
    /\ Completed
    /\ code = OP_STZ_ABSOLUTE
    /\ pre.registers.pc = 65535
    /\ pre.registers.pb = 128
    /\ pre.registers.db = 0
    /\ Events("read")[2] = EvRead(128, 0, 52)
    /\ Events("read")[3] = EvRead(128, 1, 255)

(* C12: when a bound instruction is over, pc is its starting value plus    *)
(* the instruction length mod 2^16: 1 for 0x78, 2 for 0xA9 with the width  *)
(* flag clear and 3 with it set, 3 for 0xAD and 0x9C whatever the flag.    *)
InstructionLength ==
    IF code = OP_SEI THEN 1
    ELSE IF code = OP_LDA_IMMEDIATE
         THEN (IF WidthFlagAtStart THEN 3 ELSE 2)
         ELSE 3

C12_PcAdvancesByLength ==
    (Completed /\ code \in BoundOpcodes) =>
        registers.pc = (pre.registers.pc + InstructionLength) % U16

C12_Witness ==
    /\ Completed
    /\ code = OP_LDA_IMMEDIATE
    /\ WidthFlagAtStart
    /\ pre.registers.pc = 65534
    /\ registers.pc = 1

(* C13: 0x9C, in either width, reads memory only for its three instruction *)
(* bytes, leaves accumulator, flags, data bank and program bank unchanged, *)
(* writes at low | (high << 8) in the data bank whatever the width flag,   *)
(* and writes nothing but zero bytes.                                      *)
C13_StzFrame ==
    (Completed /\ code = OP_STZ_ABSOLUTE) =>
        LET writes == Events("write")
        IN /\ Events("read") = FetchEvents(3)
           /\ registers.a = pre.registers.a
           /\ registers.flags = pre.registers.flags
           /\ registers.db = pre.registers.db
           /\ registers.pb = pre.registers.pb
           /\ Len(writes) >= 1
           /\ writes[1][2] = pre.registers.db
           /\ writes[1][3] = PreOperand
           /\ \A i \in 1..Len(writes) : writes[i][4] = 0
           /\ \A i \in 2..Len(writes) :
                 <<writes[i][2], writes[i][3]>>
                     \in SecondByte(pre.registers.db, PreOperand)
           /\ \A x \in DOMAIN mem :
                 (x \notin DOMAIN pre.mem \/ mem[x] # pre.mem[x]) => mem[x] = 0

C13_Witness ==
    /\ Completed
    /\ code = OP_STZ_ABSOLUTE
    /\ WidthFlagAtStart
    /\ pre.registers.a = 48879
    /\ pre.registers.db = 126
    /\ Len(Events("write")) = 2
    /\ PreOperand = 255 + 256 * 52

(* C14 as stated: for every bound opcode the width flag is read exactly    *)
(* once per instruction, right after the opcode fetch, and keeps its value *)
(* until the instruction is over.                                          *)
C14_FlagReadOnceEveryBoundOpcode ==
    (Completed /\ code \in BoundOpcodes) =>
        /\ Len(Events("flag")) = 1
        /\ trace[2] = EvFlag(FLAG_A16 \in registers.flags)

(* C14 amended: for every bound opcode with an operand (0xA9, 0xAD, 0x9C)  *)
(* the width flag is read exactly once per instruction, after the opcode   *)
(* fetch and before any operand fetch, and keeps the value read until the  *)
(* instruction is over; 0x78 does not read the width flag and does not     *)
(* change it.                                                              *)
C14_FlagReadOnce ==
    /\ Len(Events("flag")) <= 1
    /\ (icount > 0 /\ code \in OperandOpcodes /\ at # "match") =>
          /\ Len(Events("flag")) = 1
          /\ trace[1][1] = "read"
          /\ trace[2] = EvFlag(WidthFlagAtStart)
          /\ sixteen_bits = WidthFlagAtStart
          /\ (FLAG_A16 \in registers.flags) = WidthFlagAtStart
    /\ (icount > 0 /\ code = OP_SEI) =>
          /\ Events("flag") = <<>>
          /\ (FLAG_A16 \in registers.flags) = WidthFlagAtStart

C14_Witness ==
    /\ Completed
    /\ code = OP_LDA_IMMEDIATE
    /\ trace[2] = EvFlag(TRUE)
    /\ Len(Events("read")) = 3
    /\ icount = 2

(* C15: a bound opcode, once fetched, runs to its end and the dispatcher   *)
(* is ready again after at most three instruction-stream fetches and one   *)
(* handler; no opcode is fetched while an instruction is under way.        *)
C15_RunsToCompletion ==
    /\ [](/\ (at \in FetchPositions /\ at # "ready")
                => Len(Events("read")) <= 2
          /\ Len(Events("handler")) <= 1
          /\ Events("handler") # <<>> => at = "ready"
          /\ at # "ready" => icount > 0)
    /\ [][icount' # icount => (at = "ready" /\ at' = "match")]_vars
    /\ \A n \in 1..MaxInstr :
          (at = "match" /\ code \in BoundOpcodes /\ icount = n)
              ~> (at = "ready" /\ icount = n
                  /\ Len(Events("handler")) = 1)

C15_Witness ==
    /\ Completed
    /\ icount = MaxInstr
    /\ code = OP_LDA_ABSOLUTE
    /\ Len(Events("read")) = 5
    /\ Len(Events("handler")) = 1

(* C16: no step of run_instruction, for any opcode and on the decode       *)
(* failure too, changes the program bank or the data bank.                 *)
C16_BanksNeverChange ==
    [][/\ registers'.pb = registers.pb
       /\ registers'.db = registers.db]_vars

C16_Witness ==
    /\ Completed
    /\ icount = 2
    /\ code = OP_LDA_ABSOLUTE
    /\ registers.pb = 128
    /\ registers.db = 126
    /\ registers.pc < pre.registers.pc
    /\ registers.a # pre.registers.a

(* C17: the flags only ever gain bits, and the only bit gained is          *)
(* FLAG_NO_IRQ: once set it stays set, the width flag keeps its value, and *)
(* 0x78 on flags that already hold FLAG_NO_IRQ changes nothing.            *)
C17_FlagsOnlyGainNoIrq ==
    [][/\ registers.flags \subseteq registers'.flags
       /\ registers'.flags \subseteq registers.flags \cup {FLAG_NO_IRQ}
       /\ (FLAG_NO_IRQ \in registers.flags
              => FLAG_NO_IRQ \in registers'.flags)
       /\ (FLAG_A16 \in registers'.flags) = (FLAG_A16 \in registers.flags)
       /\ (registers'.flags # registers.flags
              => (at = "match" /\ code = OP_SEI))]_vars

C17_Witness ==
    /\ Completed
    /\ icount = 2
    /\ code = OP_SEI
    /\ FLAG_NO_IRQ \in pre.registers.flags
    /\ FLAG_A16 \in pre.registers.flags
    /\ registers.flags = pre.registers.flags
    /\ pre.registers.pc = 0

====
